---- MODULE Spec2Model ----
(***************************************************************************)
(* A model of iv_metrics.py: the field extractors, the ATM selector, the   *)
(* metrics engine, the CSV history store and the sequencing of main.       *)
(*                                                                         *)
(* Text is a sequence of one-character strings.  A finite float is an      *)
(* integer number of ticks; NaN and +infinity are separate values.         *)
(***************************************************************************)
EXTENDS Integers, Sequences, FiniteSets, TLC

VARIABLES
    arg,          \* input of the function under test (pure-function specs)
    ret,          \* its result, or Pending
    file,         \* .iv_cache/{TICKER}.csv: [exists, rows]
    pc,           \* position of main
    args,         \* parsed command line of the current run
    today,        \* _us_eastern_today() of the current run
    net,          \* what the upstream API answers in the current run
    price, expiration, calls, puts, call_pick, put_pick,
    current_iv, history, rank, pct,           \* locals of main
    exit_code,    \* process exit status, NoExit while running
    out,          \* what the run printed: [report, warning], and whether its write failed
    trace,        \* steps of the current run that touched history, in order
    file0,        \* the history file when the current run started
    runs          \* completed runs so far

vars == <<arg, ret, file, pc, args, today, net, price, expiration, calls, puts,
          call_pick, put_pick, current_iv, history, rank, pct, exit_code, out,
          trace, file0, runs>>

mainVars == <<pc, args, today, net, price, expiration, calls, puts, call_pick,
              put_pick, current_iv, history, rank, pct, exit_code, out, trace,
              file0, runs>>

-----------------------------------------------------------------------------
(* Bounds *)

MaxStrike == 3
MaxIv == 2
MaxItems == 3
MaxHist == 3
MaxCur == 4
MaxRows == 3
MaxLookback == 2
MaxRuns == 3
MaxAppends == 3

-----------------------------------------------------------------------------
(* Text *)

DigitChars == {"0", "1", "2", "3", "4", "5", "6", "7", "8", "9"}

DigitVal(c) ==
    CASE c = "0" -> 0 [] c = "1" -> 1 [] c = "2" -> 2 [] c = "3" -> 3
      [] c = "4" -> 4 [] c = "5" -> 5 [] c = "6" -> 6 [] c = "7" -> 7
      [] c = "8" -> 8 [] c = "9" -> 9

DigitChar(n) ==
    CASE n = 0 -> "0" [] n = 1 -> "1" [] n = 2 -> "2" [] n = 3 -> "3"
      [] n = 4 -> "4" [] n = 5 -> "5" [] n = 6 -> "6" [] n = 7 -> "7"
      [] n = 8 -> "8" [] n = 9 -> "9"

\* Code point of a character, the order Python compares str by.
CharCode(c) ==
    CASE c = "-" -> 45 [] c = "/" -> 47 [] c \in DigitChars -> 48 + DigitVal(c)
      [] c = "T" -> 84 [] c = "a" -> 97 [] c = "b" -> 98 [] c = "c" -> 99
      [] c = "f" -> 102 [] c = "i" -> 105 [] c = "n" -> 110
      [] OTHER -> 120

\* a < b on str
StrLess(a, b) ==
    \E i \in 1..(Len(a) + 1) :
        /\ i <= Len(b)
        /\ \A j \in 1..(i - 1) : a[j] = b[j]
        /\ \/ i = Len(a) + 1
           \/ CharCode(a[i]) < CharCode(b[i])

AllDigits(s) == Len(s) > 0 /\ \A i \in 1..Len(s) : s[i] \in DigitChars

RECURSIVE DigitsValue(_)
DigitsValue(s) ==
    IF Len(s) = 0 THEN 0
    ELSE 10 * DigitsValue(SubSeq(s, 1, Len(s) - 1)) + DigitVal(s[Len(s)])

RECURSIVE NatDigits(_)
NatDigits(n) ==
    IF n < 10 THEN <<DigitChar(n)>>
    ELSE Append(NatDigits(n \div 10), DigitChar(n % 10))

\* n as decimal text padded with zeros to at least w characters (%0wd)
RECURSIVE ZeroPad(_, _)
ZeroPad(s, w) == IF Len(s) >= w THEN s ELSE ZeroPad(<<"0">> \o s, w)

Take(s, n) == SubSeq(s, 1, IF Len(s) < n THEN Len(s) ELSE n)

-----------------------------------------------------------------------------
(* Floats *)

Fin(n) == [k |-> "fin", v |-> n]
NaN == [k |-> "nan", v |-> 0]
Inf == [k |-> "inf", v |-> 0]
None == [k |-> "none", v |-> 0]

IsFinite(f) == f.k = "fin"

\* a - b, for finite b
FSub(a, b) == IF a.k = "fin" THEN Fin(a.v - b.v) ELSE a

FAbs(a) == IF a.k = "fin" THEN Fin(IF a.v < 0 THEN -a.v ELSE a.v) ELSE a

\* a < b: every comparison with NaN is false
FLess(a, b) ==
    CASE a.k = "nan" \/ b.k = "nan" -> FALSE
      [] a.k = "inf" -> FALSE
      [] b.k = "inf" -> TRUE
      [] OTHER -> a.v < b.v

\* str(float) as csv.writer writes it
FloatRepr(f) ==
    CASE f.k = "nan" -> <<"n", "a", "n">>
      [] f.k = "inf" -> <<"i", "n", "f">>
      [] OTHER -> IF f.v < 0 THEN <<"-">> \o NatDigits(-f.v) ELSE NatDigits(f.v)

\* float(text); None stands for ValueError
ParseFloat(s) ==
    CASE s = <<"n", "a", "n">> -> NaN
      [] s = <<"i", "n", "f">> -> Inf
      [] AllDigits(s) -> Fin(DigitsValue(s))
      [] Len(s) > 1 /\ s[1] = "-" /\ AllDigits(Tail(s)) -> Fin(-DigitsValue(Tail(s)))
      [] OTHER -> None

-----------------------------------------------------------------------------
(* Dates *)

Date(y, m, d) == [y |-> y, m |-> m, d |-> d]

IsLeap(y) == (y % 4 = 0 /\ y % 100 # 0) \/ y % 400 = 0

DaysInMonth(y, m) ==
    CASE m \in {4, 6, 9, 11} -> 30
      [] m = 2 -> IF IsLeap(y) THEN 29 ELSE 28
      [] OTHER -> 31

\* date.isoformat(): %04d-%02d-%02d
isoformat(d) ==
    ZeroPad(NatDigits(d.y), 4) \o <<"-">> \o ZeroPad(NatDigits(d.m), 2)
        \o <<"-">> \o ZeroPad(NatDigits(d.d), 2)

\* datetime.strptime(s, "%Y-%m-%d").date(); None stands for ValueError.
\* The year takes four digits, month and day one or two, and the whole of s
\* has to be consumed.
_parse_date(s) ==
    IF ~(Len(s) \in 8..10 /\ AllDigits(SubSeq(s, 1, 4)) /\ s[5] = "-") THEN None
    ELSE LET p == IF s[7] = "-" THEN 7 ELSE 8
             ms == SubSeq(s, 6, p - 1)
             ds == SubSeq(s, p + 1, Len(s))
         IN  IF ~(s[p] = "-" /\ AllDigits(ms) /\ AllDigits(ds) /\ Len(ds) <= 2) THEN None
             ELSE LET y == DigitsValue(SubSeq(s, 1, 4))
                      m == DigitsValue(ms)
                      d == DigitsValue(ds)
                  IN  IF y >= 1 /\ m \in 1..12 /\ d \in 1..DaysInMonth(y, m)
                      THEN [k |-> "date", v |-> Date(y, m, d)]
                      ELSE None

\* a < b on datetime.date
DateLess(a, b) ==
    \/ a.y < b.y
    \/ a.y = b.y /\ a.m < b.m
    \/ a.y = b.y /\ a.m = b.m /\ a.d < b.d

-----------------------------------------------------------------------------
(* JSON values as the upstream API returns them *)

JNull == [t |-> "none", n |-> 0, s |-> <<>>]
JNum(n) == [t |-> "num", n |-> n, s |-> <<>>]
JNaN == [t |-> "nan", n |-> 0, s |-> <<>>]
JInf == [t |-> "inf", n |-> 0, s |-> <<>>]
JStr(s) == [t |-> "str", n |-> 0, s |-> s]
JDict(f) == [t |-> "dict", n |-> 0, s |-> <<>>, d |-> f]

\* bool(v), as `or` and `not` test it
Truthy(v) ==
    CASE v.t = "none" -> FALSE
      [] v.t = "num" -> v.n # 0
      [] v.t = "str" -> Len(v.s) > 0
      [] v.t = "dict" -> DOMAIN v.d # {}
      [] OTHER -> TRUE

\* a or b
PyOr(a, b) == IF Truthy(a) THEN a ELSE b

\* float(v); None stands for ValueError / TypeError
ToFloat(v) ==
    CASE v.t = "num" -> Fin(v.n)
      [] v.t = "nan" -> NaN
      [] v.t = "inf" -> Inf
      [] v.t = "str" -> ParseFloat(v.s)
      [] OTHER -> None

\* str(v)
ToStr(v) ==
    CASE v.t = "str" -> v.s
      [] v.t = "num" -> FloatRepr(Fin(v.n))
      [] v.t = "nan" -> FloatRepr(NaN)
      [] v.t = "inf" -> FloatRepr(Inf)
      [] OTHER -> <<"x">>

\* item.get(k)
DictGet(item, k) == IF k \in DOMAIN item.d THEN item.d[k] ELSE JNull

RECURSIVE _safe_get(_, _)
_safe_get(d, path) ==
    IF Len(path) = 0 THEN d
    ELSE IF d.t # "dict" \/ Head(path) \notin DOMAIN d.d THEN JNull
    ELSE _safe_get(d.d[Head(path)], Tail(path))

-----------------------------------------------------------------------------
(* Field extractors *)

_extract_option_ticker(item) ==
    PyOr(DictGet(item, "ticker"),
         PyOr(_safe_get(item, <<"details", "ticker">>),
              _safe_get(item, <<"symbol">>)))

_extract_strike(item) ==
    LET strike == PyOr(DictGet(item, "strike_price"),
                  PyOr(DictGet(item, "strike"),
                  PyOr(_safe_get(item, <<"details", "strike_price">>),
                       _safe_get(item, <<"details", "strike">>))))
    IN  IF strike.t # "none" THEN ToFloat(strike) ELSE None

_extract_expiration(item) ==
    LET exp == PyOr(DictGet(item, "expiration_date"),
               PyOr(DictGet(item, "expires_at"),
                    _safe_get(item, <<"details", "expiration_date">>)))
    IN  IF ~Truthy(exp) THEN None ELSE _parse_date(Take(ToStr(exp), 10))

IvCandidates(item) ==
    << DictGet(item, "implied_volatility"),
       DictGet(item, "iv"),
       _safe_get(item, <<"greeks", "implied_volatility">>),
       _safe_get(item, <<"day", "implied_volatility">>),
       _safe_get(item, <<"last_quote", "implied_volatility">>),
       _safe_get(item, <<"details", "implied_volatility">>) >>

\* the loop of _extract_iv over candidates[i..]
RECURSIVE IvLoop(_, _)
IvLoop(cands, i) ==
    IF i > Len(cands) THEN None
    ELSE IF cands[i].t = "none" THEN IvLoop(cands, i + 1)
    ELSE LET f == ToFloat(cands[i])
         IN  IF f.k # "none" /\ IsFinite(f) THEN f ELSE IvLoop(cands, i + 1)

_extract_iv(item) == IvLoop(IvCandidates(item), 1)

-----------------------------------------------------------------------------
(* Records the extractors are applied to: every way of filling the candidate
   locations of one field from a few values.  JNull at a location stands for
   a key that is missing (dict.get and _safe_get answer None for both). *)

StrikePaths == {<<"strike_price">>, <<"strike">>, <<"details", "strike_price">>,
                <<"details", "strike">>}
ExpirationPaths == {<<"expiration_date">>, <<"expires_at">>,
                    <<"details", "expiration_date">>}
IvPaths == {<<"implied_volatility">>, <<"iv">>, <<"greeks", "implied_volatility">>,
            <<"day", "implied_volatility">>, <<"last_quote", "implied_volatility">>,
            <<"details", "implied_volatility">>}
TickerPaths == {<<"ticker">>, <<"details", "ticker">>, <<"symbol">>}

StrikeValues == {JNull, JNum(0), JNum(2), JStr(<<"3">>), JStr(<<"a", "b", "c">>), JNaN}
IvValues == {JNull, JNum(2), JStr(<<"a", "b", "c">>), JNaN, JInf}
ExpirationValues ==
    {JNull, JStr(<<>>),
     JStr(<<"2", "0", "2", "4", "-", "0", "2", "-", "1", "6">>),
     JStr(<<"2", "0", "2", "4", "-", "0", "3", "-", "1", "5", "T", "0", "0">>),
     JStr(<<"0", "2", "/", "1", "6", "/", "2", "0", "2", "4">>)}
TickerValues == {JNull, JStr(<<>>), JStr(<<"a">>)}

Present(c) == {q \in DOMAIN c : c[q].t # "none"}

BuildItem(c) ==
    JDict([k \in {p[1] : p \in Present(c)} |->
             IF <<k>> \in Present(c) THEN c[<<k>>]
             ELSE JDict([k2 \in {p[2] : p \in {q \in Present(c) : Len(q) = 2 /\ q[1] = k}}
                           |-> c[<<k, k2>>]])])

ExtractItems ==
    {BuildItem(c) : c \in [StrikePaths -> StrikeValues]}
      \cup {BuildItem(c) : c \in [ExpirationPaths -> ExpirationValues]}
      \cup {BuildItem(c) : c \in [IvPaths -> IvValues]}
      \cup {BuildItem(c) : c \in [TickerPaths -> TickerValues]}

Pending == [op |-> "pending"]
NoExit == -1

\* The state of main before a run, also the value of main's variables in the
\* specifications that exercise one function.
MainIdle ==
    /\ pc = "idle"
    /\ args = [api_key |-> FALSE, lookback |-> 0, no_write_history |-> FALSE,
               verbose |-> FALSE]
    /\ today = Date(2024, 1, 9)
    /\ net = <<>>
    /\ price = None /\ expiration = None
    /\ calls = <<>> /\ puts = <<>>
    /\ call_pick = None /\ put_pick = None
    /\ current_iv = None
    /\ history = <<>>
    /\ rank = None /\ pct = None
    /\ exit_code = NoExit
    /\ out = [report |-> FALSE, warning |-> FALSE, write_failed |-> FALSE]
    /\ trace = <<>>
    /\ file0 = [exists |-> FALSE, rows |-> <<>>]
    /\ runs = 0

NoFile == [exists |-> FALSE, rows |-> <<>>]

InitExtract ==
    /\ arg \in ExtractItems
    /\ ret = Pending
    /\ file = NoFile
    /\ MainIdle

ExtractStrike ==
    /\ ret = Pending
    /\ ret' = [op |-> "strike", val |-> _extract_strike(arg)]
    /\ UNCHANGED <<arg, file, mainVars>>

ExtractExpiration ==
    /\ ret = Pending
    /\ ret' = [op |-> "expiration", val |-> _extract_expiration(arg)]
    /\ UNCHANGED <<arg, file, mainVars>>

ExtractIv ==
    /\ ret = Pending
    /\ ret' = [op |-> "iv", val |-> _extract_iv(arg)]
    /\ UNCHANGED <<arg, file, mainVars>>

ExtractTicker ==
    /\ ret = Pending
    /\ ret' = [op |-> "ticker", val |-> _extract_option_ticker(arg)]
    /\ UNCHANGED <<arg, file, mainVars>>

NextExtract == ExtractStrike \/ ExtractExpiration \/ ExtractIv \/ ExtractTicker

SpecExtract == InitExtract /\ [][NextExtract]_vars

-----------------------------------------------------------------------------
(* C7 *)

StrikeCandidates(item) ==
    << DictGet(item, "strike_price"), DictGet(item, "strike"),
       _safe_get(item, <<"details", "strike_price">>),
       _safe_get(item, <<"details", "strike">>) >>

ExpirationCandidates(item) ==
    << DictGet(item, "expiration_date"), DictGet(item, "expires_at"),
       _safe_get(item, <<"details", "expiration_date">>) >>

ConvertsToStrike(v) == ToFloat(v)
ConvertsToDate(v) == _parse_date(Take(ToStr(v), 10))
ConvertsToIv(v) == LET f == ToFloat(v) IN IF f.k = "fin" THEN f ELSE None

\* the first candidate from position i on that exists and converts
RECURSIVE FirstConverting(_, _, _)
FirstConverting(cands, Conv(_), i) ==
    IF i > Len(cands) THEN None
    ELSE IF cands[i].t # "none" /\ Conv(cands[i]).k # "none" THEN Conv(cands[i])
    ELSE FirstConverting(cands, Conv, i + 1)

SameOptional(a, b) == a.k = b.k /\ (a.k # "none" => a.v = b.v)

\* C7: each of the strike, expiration and IV extractors returns the first of
\* its candidate locations, in priority order, that exists and converts to
\* the required type (skipping candidates that exist but fail to convert),
\* and returns absent only when no candidate exists and converts.
C7_FirstConvertingCandidate ==
    /\ ret.op = "strike" =>
         SameOptional(ret.val, FirstConverting(StrikeCandidates(arg), ConvertsToStrike, 1))
    /\ ret.op = "expiration" =>
         SameOptional(ret.val, FirstConverting(ExpirationCandidates(arg), ConvertsToDate, 1))
    /\ ret.op = "iv" =>
         SameOptional(ret.val, FirstConverting(IvCandidates(arg), ConvertsToIv, 1))

\* The part of C7 that the code keeps: the IV extractor alone falls through
\* candidates that fail to convert or are not finite.
ExtractIvFirstConverting ==
    ret.op = "iv" =>
        SameOptional(ret.val, FirstConverting(IvCandidates(arg), ConvertsToIv, 1))

-----------------------------------------------------------------------------
(* ATM selector *)

NoBest == [k |-> "none", delta |-> None, idx |-> 0]

\* the loop of pick_atm_option over snapshot_items[i..]; best holds the
\* delta and the position of the record kept so far
RECURSIVE BestLoop(_, _, _, _)
BestLoop(items, underlying_price, i, best) ==
    IF i > Len(items) THEN best
    ELSE LET strike == _extract_strike(items[i])
         IN  IF strike.k = "none" THEN BestLoop(items, underlying_price, i + 1, best)
             ELSE LET delta == FAbs(FSub(strike, underlying_price))
                  IN  IF best.k = "none" \/ FLess(delta, best.delta)
                      THEN BestLoop(items, underlying_price, i + 1,
                                    [k |-> "some", delta |-> delta, idx |-> i])
                      ELSE BestLoop(items, underlying_price, i + 1, best)

OptionPick(ticker, strike, contract_type, expiration_date, iv) ==
    [k |-> "pick",
     v |-> [ticker |-> ticker, strike |-> strike, contract_type |-> contract_type,
            expiration_date |-> expiration_date, iv |-> iv]]

pick_atm_option(snapshot_items, contract_type, exp, underlying_price) ==
    LET best == BestLoop(snapshot_items, underlying_price, 1, NoBest)
    IN  IF best.k = "none" THEN None
        ELSE LET it == snapshot_items[best.idx]
                 ticker == _extract_option_ticker(it)
                 strike == _extract_strike(it)
                 iv == _extract_iv(it)
             IN  IF ~Truthy(ticker) THEN None
                 ELSE OptionPick(ticker, IF strike.k # "none" THEN strike ELSE NaN,
                                 contract_type, exp, iv)

\* Snapshot records for the selector: the record at position i carries the
\* identifier Oi when it has one, so that a pick names its record.
OptionName(i) == JStr(<<"O", DigitChar(i)>>)

SnapshotRecord(i, strike, named, iv) ==
    BuildItem([p \in {<<"strike_price">>, <<"ticker">>, <<"implied_volatility">>} |->
                 CASE p = <<"strike_price">> -> strike
                   [] p = <<"ticker">> -> IF named THEN OptionName(i) ELSE JNull
                   [] OTHER -> iv])

PickStrikes == {JNull, JNaN, JInf} \cup {JNum(n) : n \in 0..MaxStrike}

SnapshotLists(strikes, ivs) ==
    UNION {{[i \in 1..n |-> SnapshotRecord(i, c[i][1], c[i][2], c[i][3])] :
              c \in [1..n -> strikes \X BOOLEAN \X ivs]} : n \in 0..MaxItems}

PickPrices == {Fin(1), Fin(2)}

InitPick ==
    /\ arg \in [items : SnapshotLists(PickStrikes, {JNum(2)}), price : PickPrices]
    /\ ret = Pending
    /\ file = NoFile
    /\ MainIdle

PickCall ==
    /\ ret = Pending
    /\ ret' = [op |-> "pick",
               val |-> pick_atm_option(arg.items, "call", today, arg.price)]
    /\ UNCHANGED <<arg, file, mainVars>>

PickPut ==
    /\ ret = Pending
    /\ ret' = [op |-> "pick",
               val |-> pick_atm_option(arg.items, "put", today, arg.price)]
    /\ UNCHANGED <<arg, file, mainVars>>

NextPick == PickCall \/ PickPut

SpecPick == InitPick /\ [][NextPick]_vars

-----------------------------------------------------------------------------
(* C4, C9 *)

Extractable(items) == {i \in 1..Len(items) : _extract_strike(items[i]).k # "none"}

\* |strike_i - price| <= |strike_j - price| as distances on the number line.
\* A strike that is infinite or not a number is taken to be infinitely far,
\* the reading under which a lone such record is still the nearest one.
DistanceLe(items, p, i, j) ==
    LET si == _extract_strike(items[i])
        sj == _extract_strike(items[j])
        Abs(x) == IF x < 0 THEN -x ELSE x
    IN  \/ sj.k # "fin"
        \/ si.k = "fin" /\ Abs(si.v - p.v) <= Abs(sj.v - p.v)

IsNearest(items, p, i) ==
    i \in Extractable(items) /\ \A j \in Extractable(items) : DistanceLe(items, p, i, j)

IsNearestFirst(items, p, i) ==
    IsNearest(items, p, i) /\ \A j \in 1..(i - 1) : ~IsNearest(items, p, j)

PickedFrom(pick, item) ==
    /\ pick.v.ticker = _extract_option_ticker(item)
    /\ pick.v.strike = _extract_strike(item)

NoNaNStrike(items) == \A i \in Extractable(items) : _extract_strike(items[i]).k # "nan"

\* C4: whenever pick_atm_option returns a pick, the chosen record has the
\* minimal distance |strike - underlying_price| among all input records with
\* an extractable strike, and is the first such record in input order.
C4_PickIsNearestFirst ==
    (ret.op = "pick" /\ ret.val.k = "pick") =>
        \E i \in 1..Len(arg.items) :
            IsNearestFirst(arg.items, arg.price, i) /\ PickedFrom(ret.val, arg.items[i])

\* C4 on inputs where no extractable strike is NaN, which the code keeps.
PickIsNearestFirstWithoutNaN ==
    (ret.op = "pick" /\ NoNaNStrike(arg.items)) => C4_PickIsNearestFirst

\* C9: pick_atm_option returns none exactly when no input record has an
\* extractable strike or the nearest-strike record (first among ties) has no
\* extractable identifier, and every pick carries a non-empty identifier.
C9_NoneIffNoStrikeOrNearestUnnamed ==
    ret.op = "pick" =>
        /\ ret.val.k = "none" <=>
             \/ Extractable(arg.items) = {}
             \/ \E i \in 1..Len(arg.items) :
                    /\ IsNearestFirst(arg.items, arg.price, i)
                    /\ ~Truthy(_extract_option_ticker(arg.items[i]))
        /\ ret.val.k = "pick" => Truthy(ret.val.v.ticker)

\* C9 on inputs where no extractable strike is NaN, which the code keeps.
NoneIffNoStrikeOrNearestUnnamedWithoutNaN ==
    (ret.op = "pick" /\ NoNaNStrike(arg.items)) => C9_NoneIffNoStrikeOrNearestUnnamed

-----------------------------------------------------------------------------
(* Metrics engine.  History is a sequence of <<date, iv>>; a quotient of two
   floats is kept as the exact ratio num/den with den > 0. *)

Ratio(n, d) == [k |-> "ratio", num |-> n, den |-> d]

\* min(xs) and max(xs): the first element, replaced by each later one that
\* compares below (above) it
RECURSIVE MinLoop(_, _, _)
MinLoop(xs, i, m) ==
    IF i > Len(xs) THEN m
    ELSE MinLoop(xs, i + 1, IF FLess(xs[i], m) THEN xs[i] ELSE m)

RECURSIVE MaxLoop(_, _, _)
MaxLoop(xs, i, m) ==
    IF i > Len(xs) THEN m
    ELSE MaxLoop(xs, i + 1, IF FLess(m, xs[i]) THEN xs[i] ELSE m)

PyMin(xs) == MinLoop(xs, 2, xs[1])
PyMax(xs) == MaxLoop(xs, 2, xs[1])

\* v <= c on floats
FLessEq(a, b) == a.k = "fin" /\ b.k = "fin" /\ a.v <= b.v

\* sum(1 for v in ivs[i..] if v <= current_iv)
RECURSIVE CountLe(_, _, _)
CountLe(ivs, current, i) ==
    IF i > Len(ivs) THEN 0
    ELSE (IF FLessEq(ivs[i], current) THEN 1 ELSE 0) + CountLe(ivs, current, i + 1)

\* a plausible slip: the rank clamped into [0, 1]
compute_clamping_rank(hist, current) ==
    IF Len(hist) = 0 THEN [rank |-> None, pct |-> None]
    ELSE LET ivs == [i \in 1..Len(hist) |-> hist[i][2]]
             lo == PyMin(ivs)
             hi == PyMax(ivs)
             c == IF FLess(current, lo) THEN lo ELSE IF FLess(hi, current) THEN hi ELSE current
         IN  [rank |-> IF FLess(lo, hi) THEN Ratio(c.v - lo.v, hi.v - lo.v) ELSE None,
              pct |-> Ratio(CountLe(ivs, current, 1), Len(ivs))]

\* a plausible slip: the percentile counting the observations below current only
compute_off_by_one(hist, current) ==
    IF Len(hist) = 0 THEN [rank |-> None, pct |-> None]
    ELSE LET ivs == [i \in 1..Len(hist) |-> hist[i][2]]
             lo == PyMin(ivs)
             hi == PyMax(ivs)
         IN  [rank |-> IF FLess(lo, hi) THEN Ratio(current.v - lo.v, hi.v - lo.v) ELSE None,
              pct |-> Ratio(CountLe(ivs, Fin(current.v - 1), 1), Len(ivs))]

compute_iv_rank_and_percentile(hist, current) ==
    IF Len(hist) = 0 THEN [rank |-> None, pct |-> None]
    ELSE LET ivs == [i \in 1..Len(hist) |-> hist[i][2]]
             lo == PyMin(ivs)
             hi == PyMax(ivs)
         IN  [rank |-> IF FLess(lo, hi) THEN Ratio(current.v - lo.v, hi.v - lo.v) ELSE None,
              pct |-> Ratio(CountLe(ivs, current, 1), Len(ivs))]

\* Histories of finite IVs, in any order of values, dated on successive days
MetricHistories ==
    UNION {{[i \in 1..n |-> <<Date(2024, 1, i), Fin(f[i])>>] : f \in [1..n -> 1..(MaxIv + 1)]} :
             n \in 0..MaxHist}

InitMetrics ==
    /\ arg \in [history : MetricHistories, current_iv : {Fin(c) : c \in 0..MaxCur}]
    /\ ret = Pending
    /\ file = NoFile
    /\ MainIdle

Compute ==
    /\ ret = Pending
    /\ ret' = [op |-> "metrics",
               val |-> compute_iv_rank_and_percentile(arg.history, arg.current_iv)]
    /\ UNCHANGED <<arg, file, mainVars>>

NextMetrics == Compute

SpecMetrics == InitMetrics /\ [][NextMetrics]_vars

-----------------------------------------------------------------------------
(* C5, C6 *)

IvSet(hist) == {hist[i][2].v : i \in 1..Len(hist)}
SetMin(S) == CHOOSE x \in S : \A y \in S : x <= y
SetMax(S) == CHOOSE x \in S : \A y \in S : y <= x

InUnitInterval(r) == 0 <= r.num /\ r.num <= r.den

\* C5 as stated: every output of compute_iv_rank_and_percentile that is
\* present, rank and percentile alike, lies in [0, 1].
C5_OutputsInUnitInterval ==
    ret.op = "metrics" =>
        /\ ret.val.rank.k = "ratio" => InUnitInterval(ret.val.rank)
        /\ ret.val.pct.k = "ratio" => InUnitInterval(ret.val.pct)

\* C5, amended: the percentile, when present, lies in [0, 1]; the rank, when
\* present, lies in [0, 1] exactly when min(H) <= current <= max(H), is below
\* 0 when current < min(H) and above 1 when current > max(H).
C5_PercentileInUnitIntervalRankOnlyInRange ==
    ret.op = "metrics" =>
        /\ ret.val.pct.k = "ratio" => ret.val.pct.den > 0 /\ InUnitInterval(ret.val.pct)
        /\ ret.val.rank.k = "ratio" =>
             LET lo == SetMin(IvSet(arg.history))
                 hi == SetMax(IvSet(arg.history))
                 c == arg.current_iv.v
                 r == ret.val.rank
             IN  /\ r.den > 0
                 /\ InUnitInterval(r) <=> (lo <= c /\ c <= hi)
                 /\ c < lo => r.num < 0
                 /\ c > hi => r.num > r.den

\* a rank above 1 has been returned together with a percentile
C5_Witness ==
    /\ ret.op = "metrics"
    /\ ret.val.rank.k = "ratio"
    /\ ret.val.rank.num > ret.val.rank.den
    /\ ret.val.pct.k = "ratio"

\* C6: for non-empty H the rank is unavailable iff max(H) = min(H), otherwise
\* it equals (c - min(H)) / (max(H) - min(H)) with no clamping; the percentile
\* is always present and equals |{h in H : h <= c}| / |H|; for empty H both
\* are unavailable.
C6_RankAndPercentileFormulas ==
    ret.op = "metrics" =>
        IF Len(arg.history) = 0
        THEN ret.val.rank.k = "none" /\ ret.val.pct.k = "none"
        ELSE LET lo == SetMin(IvSet(arg.history))
                 hi == SetMax(IvSet(arg.history))
                 c == arg.current_iv.v
                 n == Len(arg.history)
                 le == Cardinality({i \in 1..n : arg.history[i][2].v <= c})
                 r == ret.val.rank
                 q == ret.val.pct
             IN  /\ r.k = "none" <=> hi = lo
                 /\ r.k = "ratio" => r.den > 0 /\ r.num * (hi - lo) = (c - lo) * r.den
                 /\ q.k = "ratio" /\ q.den > 0 /\ q.num * n = le * q.den

\* a current value below the observed range gave a negative rank and the
\* percentile 0
C6_Witness ==
    /\ ret.op = "metrics"
    /\ Len(arg.history) >= 2
    /\ ret.val.rank.k = "ratio"
    /\ ret.val.rank.num < 0
    /\ ret.val.pct.num = 0

-----------------------------------------------------------------------------
(* History store.  The file is [exists, rows]; a row is [date, iv], both
   text, under the header row date,iv that append always writes. *)

Row(d, v) == [date |-> d, iv |-> v]

\* rows[start:] for a Python slice start, rows counted from 0
PySliceFrom(rows, start) ==
    LET n == Len(rows)
        s0 == IF start < 0 THEN (IF n + start < 0 THEN 0 ELSE n + start)
              ELSE (IF start > n THEN n ELSE start)
    IN  SubSeq(rows, s0 + 1, n)

\* the reading loop of load_local_history: rows that fail to parse are skipped
RECURSIVE ReadRows(_, _)
ReadRows(rows, i) ==
    IF i > Len(rows) THEN <<>>
    ELSE LET d == _parse_date(rows[i].date)
             iv == ParseFloat(rows[i].iv)
         IN  IF d.k # "none" /\ iv.k # "none"
             THEN <<<<d.v, iv>>>> \o ReadRows(rows, i + 1)
             ELSE ReadRows(rows, i + 1)

\* list.sort(key=date): stable, by insertion after the last element not above
RECURSIVE InsertByDate(_, _)
InsertByDate(sorted, x) ==
    IF Len(sorted) = 0 THEN <<x>>
    ELSE IF DateLess(x[1], sorted[Len(sorted)][1])
         THEN Append(InsertByDate(SubSeq(sorted, 1, Len(sorted) - 1), x), sorted[Len(sorted)])
         ELSE Append(sorted, x)

RECURSIVE SortByDate(_)
SortByDate(xs) ==
    IF Len(xs) = 0 THEN <<>>
    ELSE InsertByDate(SortByDate(SubSeq(xs, 1, Len(xs) - 1)), xs[Len(xs)])

load_local_history(f, lookback) ==
    IF ~f.exists THEN <<>>
    ELSE PySliceFrom(SortByDate(ReadRows(f.rows, 1)), -lookback)

\* the reading loop of append_local_history: existing[row["date"]] = float(row["iv"])
RECURSIVE ReadExisting(_, _, _)
ReadExisting(rows, i, existing) ==
    IF i > Len(rows) THEN existing
    ELSE LET iv == ParseFloat(rows[i].iv)
         IN  IF iv.k = "none" THEN ReadExisting(rows, i + 1, existing)
             ELSE ReadExisting(rows, i + 1,
                      [k \in DOMAIN existing \cup {rows[i].date} |->
                          IF k = rows[i].date THEN iv ELSE existing[k]])

\* sorted(keys): ascending in str order
RECURSIVE SortedKeys(_)
SortedKeys(keys) ==
    IF keys = {} THEN <<>>
    ELSE LET m == CHOOSE k \in keys : \A o \in keys \ {k} : StrLess(k, o)
         IN  <<m>> \o SortedKeys(keys \ {m})

\* the file append_local_history leaves, given the key it stores the date under
WriteBack(f, key, iv) ==
    LET read == IF f.exists THEN ReadExisting(f.rows, 1, <<>>) ELSE <<>>
        existing == [k \in DOMAIN read \cup {key} |-> IF k = key THEN iv ELSE read[k]]
        keys == SortedKeys(DOMAIN existing)
    IN  [exists |-> TRUE,
         rows |-> [i \in 1..Len(keys) |-> Row(keys[i], FloatRepr(existing[keys[i]]))]]

\* a plausible slip: the date written without zero padding
append_unpadded(f, date, iv) ==
    WriteBack(f, NatDigits(date.y) \o <<"-">> \o NatDigits(date.m) \o <<"-">> \o NatDigits(date.d), iv)

\* a plausible slip: the new row appended without the dedupe
append_without_dedupe(f, date, iv) ==
    [exists |-> TRUE, rows |-> Append(f.rows, Row(isoformat(date), FloatRepr(iv)))]

append_local_history(f, date, iv) == WriteBack(f, isoformat(date), iv)

\* the days a run can fall on: one-digit and two-digit days of one month
StoreDates == {Date(2024, 1, 9), Date(2024, 1, 10), Date(2024, 1, 11)}
StoreIvs == {Fin(2), Fin(4)}

\* In the store specification arg is the log of the appends made so far.
InitStore ==
    /\ arg = <<>>
    /\ ret = Pending
    /\ file = NoFile
    /\ MainIdle

Append_ ==
    /\ Len(arg) < MaxAppends
    /\ \E d \in StoreDates, iv \in StoreIvs :
          /\ file' = append_local_history(file, d, iv)
          /\ arg' = Append(arg, <<d, iv>>)
    /\ ret' = Pending
    /\ UNCHANGED mainVars

Load ==
    /\ \E lookback \in 0..MaxLookback :
          ret' = [op |-> "load", lookback |-> lookback, before |-> file,
                  val |-> load_local_history(file, lookback)]
    /\ UNCHANGED <<arg, file, mainVars>>

NextStore == Append_ \/ Load

SpecStore == InitStore /\ [][NextStore]_vars

-----------------------------------------------------------------------------
(* C1, C2 *)

Series(f) == ReadRows(f.rows, 1)

Ascending(xs) == \A i, j \in 1..Len(xs) : i < j => DateLess(xs[i][1], xs[j][1])

NonDescending(xs) == \A i, j \in 1..Len(xs) : i < j => ~DateLess(xs[j][1], xs[i][1])

LogDates(log) == {log[i][1] : i \in 1..Len(log)}

LastAppended(log, d) ==
    LET i == CHOOSE i \in 1..Len(log) :
                 log[i][1] = d /\ \A j \in (i + 1)..Len(log) : log[j][1] # d
    IN  log[i][2]

\* C1: after any sequence of appends starting from no file, the persisted
\* series has one observation per appended date and no other, is sorted
\* ascending by date, and holds for each date the value of the most recent
\* append for it; appending the same (date, iv) again leaves the file as it
\* is, and appending another iv for a stored date replaces the value without
\* growing the series.
C1_AppendUpsertsSorted ==
    LET series == Series(file)
    IN  /\ Len(series) = Len(file.rows)
        /\ Ascending(series)
        /\ {series[i][1] : i \in 1..Len(series)} = LogDates(arg)
        /\ \A i \in 1..Len(series) : series[i][2] = LastAppended(arg, series[i][1])
        /\ \A d \in StoreDates, iv \in StoreIvs :
              LET once == append_local_history(file, d, iv)
              IN  /\ append_local_history(once, d, iv) = once
                  /\ d \in LogDates(arg) => Len(once.rows) = Len(file.rows)
                  /\ (d \in LogDates(arg) /\ LastAppended(arg, d) = iv) => once = file

\* days 9 and 10 were appended out of order and day 10 was overwritten
C1_Witness ==
    /\ Len(arg) >= 3
    /\ arg[1][1] = Date(2024, 1, 10)
    /\ arg[2][1] = Date(2024, 1, 9)
    /\ arg[3][1] = Date(2024, 1, 10)
    /\ arg[3][2] # arg[1][2]
    /\ Len(file.rows) = 2

Count(xs, x) == Cardinality({i \in 1..Len(xs) : xs[i] = x})

\* got holds the n most recent observations of all, neither more nor others
MostRecentOf(got, all, n) ==
    /\ Len(got) = (IF Len(all) < n THEN Len(all) ELSE n)
    /\ \A i \in 1..Len(got) : Count(got, got[i]) <= Count(all, got[i])
    /\ \A i \in 1..Len(all), j \in 1..Len(got) :
          Count(got, all[i]) < Count(all, all[i]) => ~DateLess(got[j][1], all[i][1])

\* C2: for every lookback >= 0, load_local_history returns at most lookback
\* observations, exactly the chronologically most recent of the persisted
\* valid rows, sorted ascending by date, and leaves the file as it was.
C2_LoadReturnsMostRecentLookback ==
    ret.op = "load" =>
        /\ Len(ret.val) <= ret.lookback
        /\ MostRecentOf(ret.val, Series(ret.before), ret.lookback)
        /\ NonDescending(ret.val)
        /\ file = ret.before

\* C2 for lookback >= 1, which the code keeps.
LoadReturnsMostRecentForPositiveLookback ==
    (ret.op = "load" /\ ret.lookback >= 1) => C2_LoadReturnsMostRecentLookback

-----------------------------------------------------------------------------
(* main.  One run goes from "idle" to "done"; the next run starts from the
   file the last one left.  What the upstream API answers is chosen at the
   step that asks.  An expiration is kept as its distance in days from today. *)

DEFAULT_TARGET_DTE == 30

Abs(x) == IF x < 0 THEN -x ELSE x

\* min(expirations, key=...) over expirations[i..]: the first of the nearest
RECURSIVE MinByDistance(_, _, _, _)
MinByDistance(xs, target, i, m) ==
    IF i > Len(xs) THEN m
    ELSE MinByDistance(xs, target, i + 1,
                       IF Abs(xs[i] - target) < Abs(m - target) THEN xs[i] ELSE m)

ExpirationLists == {<<>>, <<23, 37>>}
CallSnapshots == {<<>>, <<SnapshotRecord(1, JNum(2), TRUE, JNum(2))>>}
PutSnapshots == {<<>>, <<SnapshotRecord(1, JNum(2), TRUE, JNum(4))>>,
                 <<SnapshotRecord(1, JNum(2), TRUE, JNaN)>>}

Exit(code) ==
    /\ pc' = "done"
    /\ exit_code' = code

\* the order of the three history steps of main
StepAfter_AppendFirst(p) ==
    CASE p = "current_iv" -> "append"
      [] p = "append" -> "load"
      [] p = "load" -> "compute"
      [] p = "compute" -> "report"

StepAfter(p) ==
    CASE p = "current_iv" -> "load"
      [] p = "load" -> "append"
      [] p = "append" -> "compute"
      [] p = "compute" -> "report"

\* what the except clause around the write does: carry on, warn when verbose
OnWriteFailure_Reraise(verbose) == [abort |-> TRUE, warning |-> TRUE]

OnWriteFailure(verbose) == [abort |-> FALSE, warning |-> verbose]

ParseArgs ==
    /\ pc = "idle"
    /\ runs < MaxRuns
    /\ \E key \in BOOLEAN, lookback \in 0..MaxLookback, no_write \in BOOLEAN,
          verbose \in BOOLEAN :
          args' = [api_key |-> key, lookback |-> lookback,
                   no_write_history |-> no_write, verbose |-> verbose]
    /\ file0' = file
    /\ pc' = "check_key"
    /\ UNCHANGED <<arg, ret, file, today, net, price, expiration, calls, puts,
                   call_pick, put_pick, current_iv, history, rank, pct, exit_code,
                   out, trace, runs>>

CheckApiKey ==
    /\ pc = "check_key"
    /\ IF ~args.api_key THEN Exit(2) ELSE pc' = "get_price" /\ UNCHANGED exit_code
    /\ UNCHANGED <<arg, ret, file, args, today, net, price, expiration, calls, puts,
                   call_pick, put_pick, current_iv, history, rank, pct, out, trace,
                   file0, runs>>

GetLastPrice ==
    /\ pc = "get_price"
    /\ \E answer \in {"raise", "price"} :
          /\ net' = answer
          /\ IF answer = "raise"
             THEN Exit(1) /\ UNCHANGED <<price, today>>
             ELSE /\ price' = Fin(2)
                  /\ \E d \in StoreDates : today' = d
                  /\ pc' = "list_expirations"
                  /\ UNCHANGED exit_code
    /\ UNCHANGED <<arg, ret, file, args, expiration, calls, puts, call_pick,
                   put_pick, current_iv, history, rank, pct, out, trace, file0, runs>>

ListExpirations ==
    /\ pc = "list_expirations"
    /\ \E answer \in {"raise", "list"}, expirations \in ExpirationLists :
          /\ net' = answer
          /\ IF answer = "raise" \/ Len(expirations) = 0
             THEN Exit(1) /\ UNCHANGED expiration
             ELSE /\ expiration' = MinByDistance(expirations, DEFAULT_TARGET_DTE, 2,
                                                 expirations[1])
                  /\ pc' = "snapshots"
                  /\ UNCHANGED exit_code
    /\ UNCHANGED <<arg, ret, file, args, today, price, calls, puts, call_pick,
                   put_pick, current_iv, history, rank, pct, out, trace, file0, runs>>

Snapshots ==
    /\ pc = "snapshots"
    /\ \E answer \in {"raise", "list"}, c \in CallSnapshots, p \in PutSnapshots :
          /\ net' = answer
          /\ IF answer = "raise"
             THEN Exit(1) /\ UNCHANGED <<calls, puts>>
             ELSE /\ calls' = c
                  /\ puts' = p
                  /\ IF Len(c) = 0 /\ Len(p) = 0
                     THEN Exit(1)
                     ELSE pc' = "current_iv" /\ UNCHANGED exit_code
    /\ UNCHANGED <<arg, ret, file, args, today, price, expiration, call_pick,
                   put_pick, current_iv, history, rank, pct, out, trace, file0, runs>>

\* sum(iv_values) / len(iv_values) for the IVs the two picks carry.  The
\* snapshots carry IVs of an even number of ticks, so the mean of two is a
\* whole number of ticks.
MeanIv(cp, pp) ==
    LET civ == IF cp.k = "pick" /\ cp.v.iv.k # "none" THEN <<cp.v.iv.v>> ELSE <<>>
        piv == IF pp.k = "pick" /\ pp.v.iv.k # "none" THEN <<pp.v.iv.v>> ELSE <<>>
        iv_values == civ \o piv
    IN  CASE Len(iv_values) = 0 -> None
          [] Len(iv_values) = 1 -> Fin(iv_values[1])
          [] OTHER -> Fin((iv_values[1] + iv_values[2]) \div 2)

CurrentIv ==
    /\ pc = "current_iv"
    /\ call_pick' = pick_atm_option(calls, "call", expiration, price)
    /\ put_pick' = pick_atm_option(puts, "put", expiration, price)
    /\ current_iv' = MeanIv(call_pick', put_pick')
    /\ IF current_iv'.k = "none"
       THEN Exit(1)
       ELSE pc' = StepAfter("current_iv") /\ UNCHANGED exit_code
    /\ UNCHANGED <<arg, ret, file, args, today, net, price, expiration, calls, puts,
                   history, rank, pct, out, trace, file0, runs>>

LoadHistory ==
    /\ pc = "load"
    /\ history' = load_local_history(file, args.lookback)
    /\ trace' = Append(trace, "load")
    /\ pc' = StepAfter("load")
    /\ UNCHANGED <<arg, ret, file, args, today, net, price, expiration, calls, puts,
                   call_pick, put_pick, current_iv, rank, pct, exit_code, out,
                   file0, runs>>

\* The write of history, which an I/O failure can make raise: before the
\* file is opened for writing, which leaves it as it was, or after open(path,
\* "w") has truncated it and before the buffered rows reach it.
WriteHistory ==
    /\ pc = "append"
    /\ IF args.no_write_history
       THEN /\ pc' = StepAfter("append")
            /\ UNCHANGED <<file, out, trace, exit_code>>
       ELSE /\ trace' = Append(trace, "append")
            /\ \E outcome \in {"written", "raised", "raised_truncated"} :
                  IF outcome = "written"
                  THEN /\ file' = append_local_history(file, today, current_iv)
                       /\ pc' = StepAfter("append")
                       /\ UNCHANGED <<out, exit_code>>
                  ELSE /\ file' = IF outcome = "raised" THEN file
                                  ELSE [exists |-> TRUE, rows |-> <<>>]
                       /\ out' = [out EXCEPT !.write_failed = TRUE,
                                             !.warning = OnWriteFailure(args.verbose).warning]
                       /\ IF OnWriteFailure(args.verbose).abort
                          THEN Exit(1)
                          ELSE pc' = StepAfter("append") /\ UNCHANGED exit_code
    /\ UNCHANGED <<arg, ret, args, today, net, price, expiration, calls, puts,
                   call_pick, put_pick, current_iv, history, rank, pct, file0, runs>>

ComputeMetrics ==
    /\ pc = "compute"
    /\ LET m == compute_iv_rank_and_percentile(history, current_iv)
       IN  rank' = m.rank /\ pct' = m.pct
    /\ trace' = Append(trace, "compute")
    /\ pc' = StepAfter("compute")
    /\ UNCHANGED <<arg, ret, file, args, today, net, price, expiration, calls, puts,
                   call_pick, put_pick, current_iv, history, exit_code, out, file0, runs>>

Report ==
    /\ pc = "report"
    /\ out' = [out EXCEPT !.report = TRUE]
    /\ Exit(0)
    /\ UNCHANGED <<arg, ret, file, args, today, net, price, expiration, calls, puts,
                   call_pick, put_pick, current_iv, history, rank, pct, trace,
                   file0, runs>>

\* the process has ended; the next invocation starts with fresh locals
NextRun ==
    /\ pc = "done"
    /\ pc' = "idle"
    /\ runs' = runs + 1
    /\ args' = [api_key |-> FALSE, lookback |-> 0, no_write_history |-> FALSE,
                verbose |-> FALSE]
    /\ today' = Date(2024, 1, 9)
    /\ net' = <<>>
    /\ price' = None /\ expiration' = None
    /\ calls' = <<>> /\ puts' = <<>>
    /\ call_pick' = None /\ put_pick' = None
    /\ current_iv' = None
    /\ history' = <<>>
    /\ rank' = None /\ pct' = None
    /\ exit_code' = NoExit
    /\ out' = [report |-> FALSE, warning |-> FALSE, write_failed |-> FALSE]
    /\ trace' = <<>>
    /\ file0' = file
    /\ UNCHANGED <<arg, ret, file>>

Init ==
    /\ arg = <<>>
    /\ ret = Pending
    /\ file = NoFile
    /\ MainIdle

Next ==
    \/ ParseArgs \/ CheckApiKey \/ GetLastPrice \/ ListExpirations \/ Snapshots
    \/ CurrentIv \/ LoadHistory \/ WriteHistory \/ ComputeMetrics \/ Report \/ NextRun

Spec == Init /\ [][Next]_vars

-----------------------------------------------------------------------------
(* C3, C8, C10 *)

IsPrefix(a, b) == Len(a) <= Len(b) /\ a = SubSeq(b, 1, Len(a))

\* the metrics of this run are those of the history persisted before the run
\* wrote anything
MetricsOfPriorHistory ==
    "compute" \in {trace[i] : i \in 1..Len(trace)} =>
        LET prior == load_local_history(file0, args.lookback)
            m == compute_iv_rank_and_percentile(prior, current_iv)
        IN  history = prior /\ rank = m.rank /\ pct = m.pct

C8_WriteFailureIsOnlyAWarning ==
    /\ out.warning => out.write_failed
    /\ out.write_failed =>
         /\ exit_code \in {NoExit, 0}
         /\ out.warning <=> args.verbose
         /\ pc = "done" => exit_code = 0 /\ out.report /\ MetricsOfPriorHistory
         /\ pc = "done" => "compute" \in {trace[i] : i \in 1..Len(trace)}

\* a quiet run whose write failed ended with its report and metrics
C8_Witness ==
    /\ pc = "done"
    /\ out.write_failed
    /\ ~args.verbose
    /\ out.report
    /\ pct.k = "ratio"

RowsOn(f, key) == SelectSeq(f.rows, LAMBDA r : r.date = key)
RowsOff(f, key) == SelectSeq(f.rows, LAMBDA r : r.date # key)

\* C10: a run that ends with a non-zero exit leaves the history file as it
\* found it; the file is written only after a current IV was computed and
\* only when writing is not disabled, and a run adds or overwrites at most
\* the one observation of its own date (the observations of other dates stay
\* as they were, unless a failed write left the file empty).
C10_FailedRunsLeaveHistory ==
    /\ exit_code \notin {NoExit, 0} => file = file0
    /\ file # file0 =>
         /\ current_iv.k = "fin"
         /\ ~args.no_write_history
         /\ "append" \in {trace[i] : i \in 1..Len(trace)}
    /\ \/ RowsOff(file, isoformat(today)) = RowsOff(file0, isoformat(today))
       \/ out.write_failed /\ file.rows = <<>>
    /\ Len(RowsOn(file, isoformat(today))) <= 1
    /\ Len(file.rows) <= Len(file0.rows) + 1

\* a run found a history, fetched snapshots without a usable IV and exited 1
C10_Witness ==
    /\ pc = "done"
    /\ exit_code = 1
    /\ file0.exists
    /\ Len(puts) > 0
    /\ current_iv.k = "none"

-----------------------------------------------------------------------------
(* Loading files that were not written by append alone: rows out of order,
   repeated dates, dates without padding, rows that do not parse. *)

LoadRows ==
    {Row(isoformat(Date(2024, 1, 9)), FloatRepr(Fin(2))),
     Row(isoformat(Date(2024, 1, 10)), FloatRepr(Fin(4))),
     Row(<<"2", "0", "2", "4", "-", "1", "-", "8">>, FloatRepr(Fin(6))),
     Row(isoformat(Date(2024, 1, 11)), <<"a", "b", "c">>),
     Row(<<"0", "1", "/", "0", "9", "/", "2", "0", "2", "4">>, FloatRepr(Fin(2)))}

InitLoad ==
    /\ arg = <<>>
    /\ ret = Pending
    /\ file \in {NoFile} \cup
                {[exists |-> TRUE, rows |-> r] :
                     r \in UNION {[1..n -> LoadRows] : n \in 0..MaxRows}}
    /\ MainIdle

SpecLoad == InitLoad /\ [][Load]_vars

====
